---- MODULE Spec2Model ----
(***************************************************************************)
(* Model of the AppSumo invoice tools:                                     *)
(*   src/parse_appsumo_invoices.py      text -> header + line items -> rows*)
(*   src/download_invoices_from_ids.py  bulk download of invoice PDFs      *)
(* Texts are TLA+ strings handled character by character; every regular    *)
(* expression of the source is translated into a matcher over characters.  *)
(* Texts are ASCII: the en dash of the class [-–] cannot be written   *)
(* in a TLA+ string and is left out of the alphabet of the texts.          *)
(***************************************************************************)
EXTENDS Integers, Sequences, FiniteSets, TLC

VARIABLES
    pc,          \* position of the operation under way
    amt_s,       \* norm_amount: the argument s
    amt_ret,     \* norm_amount: the returned value
    date_doc,    \* parse_date: the lines of the argument text
    date_ret,    \* parse_date: the returned value
    doc,         \* parse_invoice_text: the lines the argument text is made of
    hdr,         \* parse_invoice_text: the header fields
    lines,       \* split_product_blocks: lines
    i,           \* split_product_blocks: the cursor i
    rows,        \* split_product_blocks: rows
    iters,       \* split_product_blocks: turns of the loop so far
    out,         \* parse_invoice_text: the returned records
    pdfs,        \* main: the PDFs found, in sorted order
    idx,         \* main: the number of PDFs the loop has been through
    all_rows,    \* main: all_rows
    logs,        \* main: logs
    ids,         \* download_all: ids
    files0,      \* download_all: the invoices whose file exists at the call
    files,       \* download_all: the invoices whose file exists now
    state_file,  \* download_all: STATE_FILE.exists()
    limit,       \* download_all: limit, 0 for None
    pos,         \* download_all: the number of ids the loop has been through
    done,        \* download_all: done
    events       \* download_all: what happened to each id so far

amountVars == <<amt_s, amt_ret>>
dateVars == <<date_doc, date_ret>>
parseVars == <<doc, hdr, lines, i, rows, iters, out>>
batchVars == <<pdfs, idx, all_rows, logs>>
downloadVars == <<ids, files0, files, state_file, limit, pos, done, events>>
vars == <<pc, amt_s, amt_ret, date_doc, date_ret, doc, hdr, lines, i, rows, iters, out,
          pdfs, idx, all_rows, logs,
          ids, files0, files, state_file, limit, pos, done, events>>

-----------------------------------------------------------------------------
(* Optional values: Python's None and a present value.                      *)
None == << >>
Some(v) == <<v>>

-----------------------------------------------------------------------------
(* Characters.                                                              *)
Ch(s, p) == SubSeq(s, p, p)

DigitChars == {"0", "1", "2", "3", "4", "5", "6", "7", "8", "9"}
LowerChars == {"a", "b", "c", "d", "e", "f", "g", "h", "i", "j", "k", "l", "m",
               "n", "o", "p", "q", "r", "s", "t", "u", "v", "w", "x", "y", "z"}
UpperChars == {"A", "B", "C", "D", "E", "F", "G", "H", "I", "J", "K", "L", "M",
               "N", "O", "P", "Q", "R", "S", "T", "U", "V", "W", "X", "Y", "Z"}
LetterChars == LowerChars \cup UpperChars
AlnumChars == LetterChars \cup DigitChars
WsChars == {" ", "\n", "\t"}
AmountChars == DigitChars \cup {".", ","}

LowerOf ==
    [c \in UpperChars |->
        CASE c = "A" -> "a" [] c = "B" -> "b" [] c = "C" -> "c" [] c = "D" -> "d"
          [] c = "E" -> "e" [] c = "F" -> "f" [] c = "G" -> "g" [] c = "H" -> "h"
          [] c = "I" -> "i" [] c = "J" -> "j" [] c = "K" -> "k" [] c = "L" -> "l"
          [] c = "M" -> "m" [] c = "N" -> "n" [] c = "O" -> "o" [] c = "P" -> "p"
          [] c = "Q" -> "q" [] c = "R" -> "r" [] c = "S" -> "s" [] c = "T" -> "t"
          [] c = "U" -> "u" [] c = "V" -> "v" [] c = "W" -> "w" [] c = "X" -> "x"
          [] c = "Y" -> "y" [] c = "Z" -> "z"]
UpperOf ==
    [c \in LowerChars |-> CHOOSE u \in UpperChars : LowerOf[u] = c]

Lower(c) == IF c \in UpperChars THEN LowerOf[c] ELSE c
Upper(c) == IF c \in LowerChars THEN UpperOf[c] ELSE c

DigitVal ==
    [c \in DigitChars |->
        CASE c = "0" -> 0 [] c = "1" -> 1 [] c = "2" -> 2 [] c = "3" -> 3
          [] c = "4" -> 4 [] c = "5" -> 5 [] c = "6" -> 6 [] c = "7" -> 7
          [] c = "8" -> 8 [] c = "9" -> 9]

(* str.upper() *)
RECURSIVE UpperStr(_)
UpperStr(s) == IF s = "" THEN "" ELSE Upper(Head(s)) \o UpperStr(Tail(s))

(* c in s *)
Contains(s, c) == \E p \in 1..Len(s) : Ch(s, p) = c

(* s.rfind(c): the last position of c in s, 0 when there is none (Python's -1) *)
RFind(s, c) ==
    IF Contains(s, c)
    THEN CHOOSE p \in 1..Len(s) :
            Ch(s, p) = c /\ \A q \in (p + 1)..Len(s) : Ch(s, q) # c
    ELSE 0

(* s.replace(c, r) for a single character c *)
RECURSIVE Replace(_, _, _)
Replace(s, c, r) ==
    IF s = "" THEN ""
    ELSE (IF Head(s) = c THEN r ELSE Head(s)) \o Replace(Tail(s), c, r)

(* s.strip(): leading and trailing whitespace removed *)
RECURSIVE LStrip(_)
LStrip(s) == IF s # "" /\ Head(s) \in WsChars THEN LStrip(Tail(s)) ELSE s
RECURSIVE RStrip(_)
RStrip(s) ==
    IF s # "" /\ Ch(s, Len(s)) \in WsChars
    THEN RStrip(SubSeq(s, 1, Len(s) - 1)) ELSE s
Strip(s) == RStrip(LStrip(s))

(* The first position q >= p of s whose character is not in cls (Len(s)+1   *)
(* when the run reaches the end): the end of a greedy cls* started at p.    *)
RECURSIVE RunEnd(_, _, _)
RunEnd(s, p, cls) ==
    IF p <= Len(s) /\ Ch(s, p) \in cls THEN RunEnd(s, p + 1, cls) ELSE p

(* The literal lit at position p of s, letter case ignored (re.I).          *)
LitAt(s, p, lit) ==
    /\ p + Len(lit) - 1 <= Len(s)
    /\ \A k \in 1..Len(lit) : Lower(Ch(s, p + k - 1)) = Lower(Ch(lit, k))

-----------------------------------------------------------------------------
(* Numbers: a float is kept as the decimal n / 10^e in lowest form.         *)
RECURSIVE ToNat(_)
ToNat(s) ==
    IF s = "" THEN 0
    ELSE 10 * ToNat(SubSeq(s, 1, Len(s) - 1)) + DigitVal[Ch(s, Len(s))]

RECURSIVE Reduce(_, _)
Reduce(n, e) == IF e > 0 /\ n % 10 = 0 THEN Reduce(n \div 10, e - 1) ELSE [n |-> n, e |-> e]

(* The value of the digits ip, a point, and the digits fp. *)
Dec(ip, fp) == Reduce(ToNat(ip \o fp), Len(fp))

(* float(s) for s over digits and '.': succeeds when s holds at most one    *)
(* '.' and at least one digit; None stands for the ValueError.              *)
Float(s) ==
    LET d == RunEnd(s, 1, DigitChars)
        f == IF d <= Len(s) /\ Ch(s, d) = "." THEN RunEnd(s, d + 1, DigitChars) ELSE d
    IN  IF f = Len(s) + 1 /\ \E p \in 1..Len(s) : Ch(s, p) \in DigitChars
        THEN Some(Dec(SubSeq(s, 1, d - 1), SubSeq(s, d + 1, Len(s))))
        ELSE None

(* re.search(r"([0-9]+(?:\.[0-9]{1,2})?)", s): the first run of digits,     *)
(* with a point and one or two digits when they follow it.                  *)
FallbackAmount(s) ==
    IF \E p \in 1..Len(s) : Ch(s, p) \in DigitChars
    THEN LET a == CHOOSE p \in 1..Len(s) :
                    Ch(s, p) \in DigitChars /\ \A q \in 1..(p - 1) : Ch(s, q) \notin DigitChars
             d == RunEnd(s, a, DigitChars)
             f == IF d + 1 <= Len(s) /\ Ch(s, d) = "." /\ Ch(s, d + 1) \in DigitChars
                  THEN (IF d + 2 <= Len(s) /\ Ch(s, d + 2) \in DigitChars THEN d + 2 ELSE d + 1)
                  ELSE d - 1
         IN  Float(SubSeq(s, a, f))
    ELSE None


(* norm_amount with the decimal comma left in place when the comma comes    *)
(* last: the dots are removed and the comma is not made a point.            *)
norm_amount_str_KeepComma(s0) ==
    LET s1 == Replace(Strip(s0), " ", "")
        s2 == IF Contains(s1, ",") /\ Contains(s1, ".")
              THEN IF RFind(s1, ",") > RFind(s1, ".")
                   THEN Replace(s1, ".", "")
                   ELSE Replace(s1, ",", "")
              ELSE IF Contains(s1, ",") /\ ~Contains(s1, ".")
                   THEN Replace(s1, ",", ".")
                   ELSE s1
    IN  IF Float(s2) # None THEN Float(s2) ELSE FallbackAmount(s2)

(* norm_amount(s); s = None is Python's None.                               *)
norm_amount_str(s0) ==
    LET s1 == Replace(Strip(s0), " ", "")
        s2 == IF Contains(s1, ",") /\ Contains(s1, ".")
              THEN IF RFind(s1, ",") > RFind(s1, ".")
                   THEN Replace(Replace(s1, ".", ""), ",", ".")
                   ELSE Replace(s1, ",", "")
              ELSE IF Contains(s1, ",") /\ ~Contains(s1, ".")
                   THEN Replace(s1, ",", ".")
                   ELSE s1
    IN  IF Float(s2) # None THEN Float(s2) ELSE FallbackAmount(s2)

norm_amount(s) ==
    IF s = None \/ s = Some("") THEN None ELSE norm_amount_str(s[1])

-----------------------------------------------------------------------------
(* parse_date.                                                              *)
RECURSIVE LowerStr(_)
LowerStr(s) == IF s = "" THEN "" ELSE Lower(Head(s)) \o LowerStr(Tail(s))

(* The least element of a non-empty set of positions. *)
FirstPos(S) == CHOOSE p \in S : \A q \in S : p <= q

(* DATE_PATTERNS[k][1] matched at position p of s, k = 1 the long month     *)
(* name ([A-Za-z]+), k = 2 the abbreviated one ([A-Za-z]{3}):               *)
(*   Date:\s*(<letters> \d{1,2}, \d{4})                                     *)
(* Some(group 1), or None when there is no match at p.                      *)
DatePatternAt(k, s, p) ==
    LET a == RunEnd(s, p + 5, WsChars)
        r == RunEnd(s, a, LetterChars)
        b == IF k = 1 THEN r ELSE a + 3
        c == RunEnd(s, b + 1, DigitChars)
    IN  IF /\ LitAt(s, p, "Date:")
           /\ (IF k = 1 THEN r > a ELSE r >= a + 3)
           /\ b <= Len(s) /\ Ch(s, b) = " "
           /\ c - (b + 1) \in {1, 2}
           /\ c + 5 <= Len(s)
           /\ Ch(s, c) = "," /\ Ch(s, c + 1) = " "
           /\ \A q \in (c + 2)..(c + 5) : Ch(s, q) \in DigitChars
        THEN Some(SubSeq(s, a, c + 5))
        ELSE None

(* rx.search(text): the leftmost match. *)
DatePatternSearch(k, s) ==
    LET S == {p \in 1..Len(s) : DatePatternAt(k, s, p) # None}
    IN  IF S = {} THEN None ELSE DatePatternAt(k, s, FirstPos(S))

MonthNames ==
    << "january", "february", "march", "april", "may", "june", "july",
       "august", "september", "october", "november", "december" >>
MonthAbbrs ==
    << "jan", "feb", "mar", "apr", "may", "jun", "jul", "aug", "sep", "oct",
       "nov", "dec" >>

IsLeap(y) == (y % 4 = 0 /\ y % 100 # 0) \/ y % 400 = 0
DaysIn(m, y) ==
    IF m = 2 THEN (IF IsLeap(y) THEN 29 ELSE 28)
    ELSE IF m \in {4, 6, 9, 11} THEN 30 ELSE 31

DigitStr == << "0", "1", "2", "3", "4", "5", "6", "7", "8", "9" >>
RECURSIVE Pad(_, _)
Pad(n, w) == IF w = 0 THEN "" ELSE Pad(n \div 10, w - 1) \o DigitStr[(n % 10) + 1]

(* datetime.strptime(g, fmt).date().isoformat() for a group g of a date     *)
(* pattern, fmt "%B %d, %Y" (k = 1) or "%b %d, %Y" (k = 2); None stands for *)
(* the ValueError.                                                          *)
StrpIso(k, g) ==
    LET b == RunEnd(g, 1, LetterChars)
        c == RunEnd(g, b + 1, DigitChars)
        name == LowerStr(SubSeq(g, 1, b - 1))
        names == IF k = 1 THEN MonthNames ELSE MonthAbbrs
        d == ToNat(SubSeq(g, b + 1, c - 1))
        y == ToNat(SubSeq(g, c + 2, c + 5))
    IN  IF \E m \in 1..12 : names[m] = name
        THEN LET m == CHOOSE m \in 1..12 : names[m] = name
             IN  IF y >= 1 /\ d >= 1 /\ d <= DaysIn(m, y)
                 THEN Some(Pad(y, 4) \o "-" \o Pad(m, 2) \o "-" \o Pad(d, 2))
                 ELSE None
        ELSE None

(* One turn of the loop over DATE_PATTERNS: the date, or None to go on. *)
DateTry(k, text) ==
    LET m == DatePatternSearch(k, text)
    IN  IF m # None THEN StrpIso(k, m[1]) ELSE None


(* parse_date with the two patterns tried in the other order. *)
parse_date_AbbrFirst(text) ==
    IF DateTry(2, text) # None THEN DateTry(2, text) ELSE DateTry(1, text)

parse_date(text) ==
    IF DateTry(1, text) # None THEN DateTry(1, text) ELSE DateTry(2, text)

(* "\n".join(lines) *)
RECURSIVE JoinLines(_)
JoinLines(ls) ==
    IF ls = << >> THEN ""
    ELSE IF Len(ls) = 1 THEN ls[1]
    ELSE ls[1] \o "\n" \o JoinLines(Tail(ls))

-----------------------------------------------------------------------------
(* The regular expressions of the header and of the product blocks.  Each   *)
(* RE_X(text) is RE_X.search(text): None, or Some(group 1) of the leftmost  *)
(* match.                                                                   *)

(* The end of a greedy [^cls]* started at p. *)
RECURSIVE RunEndNot(_, _, _)
RunEndNot(s, p, cls) ==
    IF p <= Len(s) /\ Ch(s, p) \notin cls THEN RunEndNot(s, p + 1, cls) ELSE p

(* The words ws[1] \s+ ws[2] \s+ ... at position p: the position after the  *)
(* last word, or 0 when they are not there.                                 *)
RECURSIVE WordsAt(_, _, _)
WordsAt(s, p, ws) ==
    IF ~LitAt(s, p, ws[1]) THEN 0
    ELSE IF Len(ws) = 1 THEN p + Len(ws[1])
    ELSE LET q == p + Len(ws[1])
             r == RunEnd(s, q, WsChars)
         IN  IF r > q THEN WordsAt(s, r, Tail(ws)) ELSE 0

DashChars == {"-"}

(* \s*\$?\s*([0-9\.\,]+) at q, or with dash \s*[-]?\s*\$?\s*([0-9\.\,]+).  *)
AmountTailAt(s, q, dash) ==
    LET a  == RunEnd(s, q, WsChars)
        a1 == IF dash /\ a <= Len(s) /\ Ch(s, a) \in DashChars THEN a + 1 ELSE a
        a2 == RunEnd(s, a1, WsChars)
        b  == IF a2 <= Len(s) /\ Ch(s, a2) = "$" THEN a2 + 1 ELSE a2
        c  == RunEnd(s, b, WsChars)
        d  == RunEnd(s, c, AmountChars)
    IN  IF d > c THEN Some(SubSeq(s, c, d - 1)) ELSE None

LabelAmountAt(s, p, words, dash) ==
    LET q == WordsAt(s, p, words)
    IN  IF q = 0 THEN None ELSE AmountTailAt(s, q, dash)

LabelAmountSearch(s, words, dash) ==
    LET S == {p \in 1..Len(s) : LabelAmountAt(s, p, words, dash) # None}
    IN  IF S = {} THEN None ELSE LabelAmountAt(s, FirstPos(S), words, dash)

(* \s*([^\n]+) at q.  When only whitespace is left the greedy \s* gives     *)
(* back its last character that is no line break, and that is the group.    *)
RestOfLineAt(s, q) ==
    LET a == RunEnd(s, q, WsChars)
    IN  IF a <= Len(s)
        THEN Some(SubSeq(s, a, RunEndNot(s, a, {"\n"}) - 1))
        ELSE LET K == {k \in q..Len(s) : Ch(s, k) # "\n"}
             IN  IF K = {} THEN None
                 ELSE Some(Ch(s, CHOOSE k \in K : \A j \in K : j <= k))

LabelLineAt(s, p, words) ==
    LET q == WordsAt(s, p, words)
    IN  IF q = 0 THEN None ELSE RestOfLineAt(s, q)

LabelLineSearch(s, words) ==
    LET S == {p \in 1..Len(s) : LabelLineAt(s, p, words) # None}
    IN  IF S = {} THEN None ELSE LabelLineAt(s, FirstPos(S), words)

(* \s*(cls{least,}) at q *)
TokenAt(s, q, cls, least) ==
    LET a == RunEnd(s, q, WsChars)
        r == RunEnd(s, a, cls)
    IN  IF r - a >= least THEN Some(SubSeq(s, a, r - 1)) ELSE None

LabelTokenAt(s, p, label, cls, least) ==
    IF LitAt(s, p, label) THEN TokenAt(s, p + Len(label), cls, least) ELSE None

LabelTokenSearch(s, label, cls, least) ==
    LET S == {p \in 1..Len(s) : LabelTokenAt(s, p, label, cls, least) # None}
    IN  IF S = {} THEN None ELSE LabelTokenAt(s, FirstPos(S), label, cls, least)

HexIdChars == DigitChars \cup {"a", "b", "c", "d", "e", "f", "A", "B", "C", "D", "E", "F", "-"}
MinIdLen == 16

(* Invoice ID:\s*([0-9a-f-]{16,}) *)
RE_INVOICE_ID(text) == LabelTokenSearch(text, "Invoice ID:", HexIdChars, MinIdLen)

(* Status:\s*(PAID|REFUNDED) *)
StatusAt(s, p) ==
    LET a == RunEnd(s, p + 7, WsChars)
    IN  IF ~LitAt(s, p, "Status:") THEN None
        ELSE IF LitAt(s, a, "PAID") THEN Some(SubSeq(s, a, a + 3))
        ELSE IF LitAt(s, a, "REFUNDED") THEN Some(SubSeq(s, a, a + 7))
        ELSE None
RE_STATUS(text) ==
    LET S == {p \in 1..Len(text) : StatusAt(text, p) # None}
    IN  IF S = {} THEN None ELSE StatusAt(text, FirstPos(S))


(* RE_PAYMENT with (.+) under re.S in place of ([^\n]+): the group runs to   *)
(* the end of the text.                                                     *)
RE_PAYMENT_DotAll(text) ==
    LET S == {p \in 1..Len(text) : LabelLineAt(text, p, << "Payment type:" >>) # None}
    IN  IF S = {} THEN None
        ELSE Some(SubSeq(text, RunEnd(text, FirstPos(S) + 13, WsChars), Len(text)))

(* Payment type:\s*([^\n]+) *)
RE_PAYMENT(text) == LabelLineSearch(text, << "Payment type:" >>)

(* Tax ID:\s*([A-Z0-9\-]+) *)
RE_TAXID(text) == LabelTokenSearch(text, "Tax ID:", AlnumChars \cup {"-"}, 1)

(* Invoice\s+subtotal\s*\$?\s*([0-9\.\,]+) *)
RE_INVOICE_SUBTOTAL(text) == LabelAmountSearch(text, << "Invoice", "subtotal" >>, FALSE)

(* Total\s+applied\s+plan\s+discount\s*[-]?\s*\$?\s*([0-9\.\,]+) *)
RE_PLAN_DISCOUNT_TOT(text) ==
    LabelAmountSearch(text, << "Total", "applied", "plan", "discount" >>, TRUE)

(* Tax\s*\$?\s*([0-9\.\,]+) *)
RE_INVOICE_TAX(text) == LabelAmountSearch(text, << "Tax" >>, FALSE)

(* Total\s+paid\s*\([^)]+\)\s*\$?\s*([0-9\.\,]+) *)
TotalPaidAt(s, p) ==
    LET q == WordsAt(s, p, << "Total", "paid" >>)
        a == RunEnd(s, q, WsChars)
        r == RunEndNot(s, a + 1, {")"})
    IN  IF q # 0 /\ a <= Len(s) /\ Ch(s, a) = "(" /\ r > a + 1 /\ r <= Len(s)
        THEN AmountTailAt(s, r + 1, FALSE)
        ELSE None
RE_TOTAL_PAID(text) ==
    LET S == {p \in 1..Len(text) : TotalPaidAt(text, p) # None}
    IN  IF S = {} THEN None ELSE TotalPaidAt(text, FirstPos(S))

(* Deal\s+plan:\s*([^\n]+) *)
RE_DEAL_PLAN(text) == LabelLineSearch(text, << "Deal", "plan:" >>)

(* Subtotal\s*\$?\s*([0-9\.\,]+) *)
RE_LINE_SUBTOTAL(text) == LabelAmountSearch(text, << "Subtotal" >>, FALSE)

(* Total\s*\$?\s*([0-9\.\,]+) *)
RE_LINE_TOTAL(text) == LabelAmountSearch(text, << "Total" >>, FALSE)

(* Plan\s+discount\s*[-]?\s*\$?\s*([0-9\.\,]+) *)
RE_LINE_PLAN_DISCOUNT(text) == LabelAmountSearch(text, << "Plan", "discount" >>, TRUE)

NameMax == 80

(* \s+Subtotal\s*\$?\s*([0-9\.\,]+) at q: what follows the name. *)
SubtotalTailAt(s, q) ==
    LET r == RunEnd(s, q, WsChars)
    IN  r > q /\ LitAt(s, r, "Subtotal") /\ AmountTailAt(s, r + 8, FALSE) # None

(* (?P<name>[A-Za-z0-9].{0,80}?)\s+Subtotal\s*\$?\s*([0-9\.\,]+) with re.S: *)
(* Some(name) of the leftmost match, the name as short as it can be.        *)
RE_PRODUCT_NAME_WITH_SUBTOTAL(text) ==
    LET A == {q \in 1..Len(text) : SubtotalTailAt(text, q)}
        Ends(p) == {q \in A : q >= p + 1 /\ q <= p + 1 + NameMax}
        P == {p \in 1..Len(text) : Ch(text, p) \in AlnumChars /\ Ends(p) # {}}
    IN  IF P = {} THEN None
        ELSE LET p == FirstPos(P)
             IN  Some(SubSeq(text, p, FirstPos(Ends(p)) - 1))

-----------------------------------------------------------------------------
(* split_product_blocks.                                                    *)

(* text.splitlines() for a text whose only line break is "\n". *)
RECURSIVE SplitLines(_)
SplitLines(text) ==
    IF text = "" THEN << >>
    ELSE LET e == RunEndNot(text, 1, {"\n"})
         IN  << SubSeq(text, 1, e - 1) >> \o SplitLines(SubSeq(text, e + 1, Len(text)))

RECURSIVE StripNonEmpty(_)
StripNonEmpty(ls) ==
    IF ls = << >> THEN << >>
    ELSE (IF Strip(ls[1]) # "" THEN << Strip(ls[1]) >> ELSE << >>) \o StripNonEmpty(Tail(ls))

(* lines = [ln.strip() for ln in text.splitlines() if ln.strip()] *)
NonEmptyLines(text) == StripNonEmpty(SplitLines(text))


(* The name searched in a window of half the size. *)
NameWindowHalf == 12 \div 2

NameWindow == 12
FieldWindow == 25

(* The cursor advanced by one line too few after a block. *)
BlockSkipShort == 6 - 1

BlockSkip == 6

Min(a, b) == IF a <= b THEN a ELSE b

(* "\n".join(lines[at:at+w]), at counted from 0 *)
Window(ls, at, w) == JoinLines(SubSeq(ls, at + 1, Min(at + w, Len(ls))))

StripOpt(m) == IF m = None THEN None ELSE Some(Strip(m[1]))
AmountOpt(m) == IF m = None THEN None ELSE norm_amount(m)

(* The row appended for a block whose name pattern matched with group name. *)
ProductRow(name, window2) ==
    [ product_name       |-> Some(Strip(name)),
      deal_plan          |-> StripOpt(RE_DEAL_PLAN(window2)),
      line_subtotal      |-> AmountOpt(RE_LINE_SUBTOTAL(window2)),
      line_plan_discount |-> AmountOpt(RE_LINE_PLAN_DISCOUNT(window2)),
      line_total         |-> AmountOpt(RE_LINE_TOTAL(window2)) ]

-----------------------------------------------------------------------------
(* parse_invoice_text.                                                      *)
UpperOpt(m) == IF m = None THEN None ELSE Some(UpperStr(m[1]))

ParseHeader(text) ==
    [ invoice_id                  |-> RE_INVOICE_ID(text),
      invoice_status              |-> UpperOpt(RE_STATUS(text)),
      invoice_date                |-> parse_date(text),
      payment_type                |-> StripOpt(RE_PAYMENT(text)),
      tax_id                      |-> StripOpt(RE_TAXID(text)),
      invoice_subtotal            |-> AmountOpt(RE_INVOICE_SUBTOTAL(text)),
      invoice_plan_discount_total |-> AmountOpt(RE_PLAN_DISCOUNT_TOT(text)),
      invoice_tax                 |-> AmountOpt(RE_INVOICE_TAX(text)),
      invoice_total_paid          |-> AmountOpt(RE_TOTAL_PAID(text)) ]

(* The single-item backfill. *)
BackfillTotal(row, h) ==
    IF row.line_total = None /\ h.invoice_total_paid # None
    THEN h.invoice_total_paid ELSE row.line_total
BackfillSubtotal(row, h) ==
    IF row.line_subtotal = None /\ h.invoice_subtotal # None
    THEN h.invoice_subtotal ELSE row.line_subtotal

(* Backfill applied to every row and whatever the row holds. *)
BackfillAlways(prod_rows, h) ==
    [k \in 1..Len(prod_rows) |->
        [prod_rows[k] EXCEPT
            !.line_total = IF h.invoice_total_paid # None
                           THEN h.invoice_total_paid ELSE prod_rows[k].line_total,
            !.line_subtotal = IF h.invoice_subtotal # None
                              THEN h.invoice_subtotal ELSE prod_rows[k].line_subtotal]]

Backfill(prod_rows, h) ==
    IF Len(prod_rows) = 1
    THEN << [prod_rows[1] EXCEPT !.line_total = BackfillTotal(prod_rows[1], h),
                                 !.line_subtotal = BackfillSubtotal(prod_rows[1], h)] >>
    ELSE prod_rows

NoItem ==
    [ product_name |-> None, deal_plan |-> None, line_subtotal |-> None,
      line_plan_discount |-> None, line_total |-> None ]

(* One output record: the header fields and one line item's fields. *)
OutputRecord(h, r) ==
    [ invoice_id                  |-> h.invoice_id,
      invoice_status              |-> h.invoice_status,
      invoice_date                |-> h.invoice_date,
      payment_type                |-> h.payment_type,
      tax_id                      |-> h.tax_id,
      product_name                |-> r.product_name,
      deal_plan                   |-> r.deal_plan,
      line_subtotal               |-> r.line_subtotal,
      line_plan_discount          |-> r.line_plan_discount,
      line_total                  |-> r.line_total,
      invoice_subtotal            |-> h.invoice_subtotal,
      invoice_plan_discount_total |-> h.invoice_plan_discount_total,
      invoice_tax                 |-> h.invoice_tax,
      invoice_total_paid          |-> h.invoice_total_paid ]


(* HeaderOnly with the test of invoice_id forgotten. *)
HeaderOnlyAnyId(prod_rows, h) == prod_rows = << >>

(* if not prod_rows and invoice_id: the header alone *)
HeaderOnly(prod_rows, h) ==
    prod_rows = << >> /\ h.invoice_id # None /\ h.invoice_id # Some("")

Assemble(prod_rows, h) ==
    LET filled == Backfill(prod_rows, h)
    IN  IF HeaderOnly(filled, h)
        THEN << OutputRecord(h, NoItem) >>
        ELSE [k \in 1..Len(filled) |-> OutputRecord(h, filled[k])]

(* The whole of split_product_blocks, as the loop computes it. *)
RECURSIVE SplitFrom(_, _)
SplitFrom(ls, at) ==
    IF at >= Len(ls) THEN << >>
    ELSE LET m == RE_PRODUCT_NAME_WITH_SUBTOTAL(Window(ls, at, NameWindow))
         IN  IF m # None
             THEN << ProductRow(m[1], Window(ls, at, FieldWindow)) >> \o SplitFrom(ls, at + BlockSkip)
             ELSE SplitFrom(ls, at + 1)
split_product_blocks(text) == SplitFrom(NonEmptyLines(text), 0)

parse_invoice_text(text) == Assemble(split_product_blocks(text), ParseHeader(text))

-----------------------------------------------------------------------------
(* The variables of the operations that are not under way.                  *)
NoHeader ==
    [ invoice_id |-> None, invoice_status |-> None, invoice_date |-> None,
      payment_type |-> None, tax_id |-> None, invoice_subtotal |-> None,
      invoice_plan_discount_total |-> None, invoice_tax |-> None,
      invoice_total_paid |-> None ]

AmountIdle == amt_s = None /\ amt_ret = None
DateIdle == date_doc = << >> /\ date_ret = None
ParseIdle ==
    /\ doc = << >> /\ hdr = NoHeader /\ lines = << >> /\ i = 0
    /\ rows = << >> /\ iters = 0 /\ out = << >>
BatchIdle == pdfs = << >> /\ idx = 0 /\ all_rows = << >> /\ logs = << >>
DownloadIdle ==
    /\ ids = << >> /\ files0 = {} /\ files = {} /\ state_file = FALSE /\ limit = 0
    /\ pos = 0 /\ done = 0 /\ events = << >>

-----------------------------------------------------------------------------
(* Inputs of norm_amount.                                                   *)
MaxAmountLen == 4

AmountAlphabet == {"0", "3", "6", ",", ".", " "}

RECURSIVE StringsOfLen(_, _)
StringsOfLen(alpha, n) ==
    IF n = 0 THEN {""}
    ELSE {c \o t : c \in alpha, t \in StringsOfLen(alpha, n - 1)}

AmountInputs ==
    {None}
    \cup {Some(t) : t \in UNION {StringsOfLen(AmountAlphabet, n) : n \in 0..MaxAmountLen}}
    \cup {Some("1,234.56"), Some("1.234,56"), Some("3,6"), Some("12,3.4.5")}

InitAmount ==
    /\ pc = "norm_amount"
    /\ amt_s \in AmountInputs
    /\ amt_ret = None
    /\ DateIdle /\ ParseIdle /\ BatchIdle /\ DownloadIdle

NormAmount ==
    /\ pc = "norm_amount"
    /\ amt_ret' = norm_amount(amt_s)
    /\ pc' = "amount_done"
    /\ UNCHANGED <<amt_s, dateVars, parseVars, batchVars, downloadVars>>

NextAmount == NormAmount

SpecAmount == InitAmount /\ [][NextAmount]_vars

-----------------------------------------------------------------------------
(* Inputs of parse_date: texts made of at most MaxDateLines of these lines. *)
MaxDateLines == 3

DateLines ==
    << "Date: March 5, 2023",
       "Date: Foo 1, 2023",
       "Date: February 30, 2023",
       "Date: Mar 6, 2023",
       "Date: n/a",
       "Status: PAID",
       "Update: May 7, 2024",
       "date: february 29, 2024",
       "Date:",
       "July 4, 2022 " >>

RECURSIVE SeqsOfLen(_, _)
SeqsOfLen(S, n) ==
    IF n = 0 THEN {<< >>}
    ELSE {<<x>> \o t : x \in S, t \in SeqsOfLen(S, n - 1)}
SeqsUpTo(S, n) == UNION {SeqsOfLen(S, k) : k \in 0..n}

DateText(d) == JoinLines([k \in 1..Len(d) |-> DateLines[d[k]]])

InitDate ==
    /\ pc = "parse_date"
    /\ date_doc \in SeqsUpTo(1..Len(DateLines), MaxDateLines)
    /\ date_ret = None
    /\ AmountIdle /\ ParseIdle /\ BatchIdle /\ DownloadIdle

ParseDate ==
    /\ pc = "parse_date"
    /\ date_ret' = parse_date(DateText(date_doc))
    /\ pc' = "date_done"
    /\ UNCHANGED <<date_doc, amountVars, parseVars, batchVars, downloadVars>>

NextDate == ParseDate

SpecDate == InitDate /\ [][NextDate]_vars

-----------------------------------------------------------------------------
(* Inputs of parse_invoice_text: texts made of these lines.                 *)
DocLines ==
    << "Invoice ID: 0123456789abcdef",          \* 1
       "Status: paid",                          \* 2
       "Payment type: Visa card",               \* 3
       "Tax ID: ES-B12345",                     \* 4
       "Date: March 5, 2023",                   \* 5
       "Invoice subtotal $30.00",               \* 6
       "Total applied plan discount -$5.00",    \* 7
       "Tax $2.10",                             \* 8
       "Total paid (USD) $42.00",               \* 9
       "Widget Pro",                            \* 10
       "Subtotal $10.00",                       \* 11
       "Total $9.00",                           \* 12
       "Gadget",                                \* 13
       "Subtotal 20,50",                        \* 14
       "Total $19.00",                          \* 15
       "Subtotal ...",                          \* 16
       "Qty 1",                                 \* 17
       "  ",                                    \* 18
       "Deal plan: Tier 1",                     \* 19
       "Plan discount -$1.00" >>                \* 20

HeaderKinds == 1..9

DocText(d) == JoinLines([k \in 1..Len(d) |-> DocLines[d[k]]])

(* Header lines, each at most once, in every order. *)
MaxHeaderLines == 2
Distinct(d) == \A a, b \in 1..Len(d) : a # b => d[a] # d[b]
HeaderPermDocs == {d \in SeqsUpTo(HeaderKinds, MaxHeaderLines) : Distinct(d)}

(* The nine header lines, two of them exchanged, alone or after a block. *)
AllHeader == [k \in 1..9 |-> k]
Swap(d, a, b) == [d EXCEPT ![a] = d[b], ![b] = d[a]]
HeaderSwapDocs ==
    {lead \o Swap(AllHeader, a, b) : a \in 1..9, b \in 1..9, lead \in {<< >>, <<10, 11, 12>>}}

(* Short bodies of product lines, alone or among header lines. *)
MaxBodyLines == 3
BodyKinds == {10, 11, 12, 13, 14, 16, 17}
ShortDocs ==
    {c[1] \o b \o c[2] :
        b \in SeqsUpTo(BodyKinds, MaxBodyLines),
        c \in {<< << >>, << >> >>, << << >>, <<1, 9, 6>> >>, << <<1>>, << >> >>,
              << << >>, <<9>> >>}}

(* Two product blocks laid out in several ways: n the name, s the subtotal, *)
(* z a subtotal of dots, t the total, q, d and p other lines of the block.  *)
Layouts ==
    { <<"n", "s", "t", "q", "q", "q">>,
      <<"n", "s", "q", "t", "q", "q">>,
      <<"n", "s", "d", "p", "t", "q">>,
      <<"n", "z", "t", "q", "q", "q">>,
      <<"n", "d", "s", "p", "t", "q">>,
      <<"n", "s", "t">>,
      <<"n", "s", "t", "q", "q", "q", "q">> }
BlockLine(prod, sym) ==
    CASE sym = "n" -> IF prod = 1 THEN 10 ELSE 13
      [] sym = "s" -> IF prod = 1 THEN 11 ELSE 14
      [] sym = "t" -> IF prod = 1 THEN 12 ELSE 15
      [] sym = "z" -> 16
      [] sym = "q" -> 17
      [] sym = "d" -> 19
      [] sym = "p" -> 20
Block(prod, layout) == [k \in 1..Len(layout) |-> BlockLine(prod, layout[k])]
Prefixes == {<< >>, <<1>>}
Suffixes == {<< >>, <<1, 9>>, <<6, 9>>}
TwoBlockDocs ==
    {lead \o Block(1, l1) \o Block(2, l2) \o trail :
        lead \in Prefixes, l1 \in Layouts, l2 \in Layouts, trail \in Suffixes}

ParseDocs == HeaderPermDocs \cup HeaderSwapDocs \cup ShortDocs \cup TwoBlockDocs

InitParse ==
    /\ pc = "parse"
    /\ doc \in ParseDocs
    /\ hdr = NoHeader /\ lines = << >> /\ i = 0 /\ rows = << >> /\ iters = 0
    /\ out = << >>
    /\ AmountIdle /\ DateIdle /\ BatchIdle /\ DownloadIdle

(* parse_invoice_text up to its call of split_product_blocks, and the       *)
(* start of that function.                                                  *)
ParseStart ==
    /\ pc = "parse"
    /\ hdr' = ParseHeader(DocText(doc))
    /\ lines' = NonEmptyLines(DocText(doc))
    /\ i' = 0
    /\ rows' = << >>
    /\ iters' = 0
    /\ pc' = "loop"
    /\ UNCHANGED <<doc, out, amountVars, dateVars, batchVars, downloadVars>>

(* One turn of the loop whose window holds a product name. *)
BlockFound ==
    /\ pc = "loop"
    /\ i < Len(lines)
    /\ LET m == RE_PRODUCT_NAME_WITH_SUBTOTAL(Window(lines, i, NameWindow))
       IN  /\ m # None
           /\ rows' = Append(rows, ProductRow(m[1], Window(lines, i, FieldWindow)))
    /\ i' = i + BlockSkip
    /\ iters' = iters + 1
    /\ UNCHANGED <<pc, doc, hdr, lines, out, amountVars, dateVars, batchVars, downloadVars>>

(* One turn of the loop whose window holds none. *)
BlockMissed ==
    /\ pc = "loop"
    /\ i < Len(lines)
    /\ RE_PRODUCT_NAME_WITH_SUBTOTAL(Window(lines, i, NameWindow)) = None
    /\ i' = i + 1
    /\ iters' = iters + 1
    /\ UNCHANGED <<pc, doc, hdr, lines, rows, out, amountVars, dateVars, batchVars, downloadVars>>

(* The loop ends; parse_invoice_text assembles and returns the records. *)
ParseFinish ==
    /\ pc = "loop"
    /\ i >= Len(lines)
    /\ out' = Assemble(rows, hdr)
    /\ pc' = "parse_done"
    /\ UNCHANGED <<doc, hdr, lines, i, rows, iters, amountVars, dateVars, batchVars, downloadVars>>

NextParse == ParseStart \/ BlockFound \/ BlockMissed \/ ParseFinish

SpecParse == InitParse /\ [][NextParse]_vars

-----------------------------------------------------------------------------
(* main of parse_appsumo_invoices.py: the loop over the PDFs.               *)

(* A PDF is what its two extractors give (the text, or None when the        *)
(* extractor raises) and the exception, if any, that the processing of its  *)
(* text raises into the loop (None, or Some(str(e))).                       *)
BatchDocs ==
    { <<10, 11, 12, 17, 17, 17, 1>>,      \* one block and an invoice id
      <<17>> }                            \* nothing recognizable
ErrorMessages == {"expected string or bytes-like object"}
PdfKinds ==
    {[primary |-> Some(d), fallback |-> None, raises |-> r] :
        d \in BatchDocs, r \in {None} \cup {Some(m) : m \in ErrorMessages}}
    \cup
    {[primary |-> None, fallback |-> f, raises |-> r] :
        f \in {None} \cup {Some(d) : d \in BatchDocs},
        r \in {None} \cup {Some(m) : m \in ErrorMessages}}

(* extract_text_best: pdfminer's text, else pdfplumber's, else "". *)
extract_text_best(pdf) ==
    IF pdf.primary # None THEN DocText(pdf.primary[1])
    ELSE IF pdf.fallback # None THEN DocText(pdf.fallback[1])
    ELSE ""

(* rows = parse_invoice_text(text), each with r["_source_file"] = str(pdf) *)
Tagged(rs, k) == [n \in 1..Len(rs) |-> [source_file |-> k, rec |-> rs[n]]]
PdfRows(pdf, k) == Tagged(parse_invoice_text(extract_text_best(pdf)), k)

LogOk(k, rs) ==
    [ pdf_file   |-> k,
      invoice_id |-> IF rs # << >> THEN rs[1].rec.invoice_id ELSE None,
      rows       |-> Len(rs),
      error      |-> "" ]
LogError(k, msg) ==
    [ pdf_file |-> k, invoice_id |-> None, rows |-> 0, error |-> msg ]

MaxPdfs == 2

InitBatch ==
    /\ pc = "batch"
    /\ pdfs \in SeqsUpTo(PdfKinds, MaxPdfs)
    /\ idx = 0 /\ all_rows = << >> /\ logs = << >>
    /\ AmountIdle /\ DateIdle /\ ParseIdle /\ DownloadIdle

(* The body of the try for the next PDF runs to its end. *)
BatchDocOk ==
    /\ pc = "batch"
    /\ idx < Len(pdfs)
    /\ pdfs[idx + 1].raises = None
    /\ all_rows' = all_rows \o PdfRows(pdfs[idx + 1], idx + 1)
    /\ logs' = Append(logs, LogOk(idx + 1, PdfRows(pdfs[idx + 1], idx + 1)))
    /\ idx' = idx + 1
    /\ UNCHANGED <<pc, pdfs, amountVars, dateVars, parseVars, downloadVars>>


(* The except branch missing: the exception leaves the loop. *)
BatchDocErrorAborts ==
    /\ pc = "batch"
    /\ idx < Len(pdfs)
    /\ pdfs[idx + 1].raises # None
    /\ pc' = "batch_done"
    /\ UNCHANGED <<batchVars, amountVars, dateVars, parseVars, downloadVars>>

(* The processing of the next PDF raises: the except branch. *)
BatchDocError ==
    /\ pc = "batch"
    /\ idx < Len(pdfs)
    /\ pdfs[idx + 1].raises # None
    /\ logs' = Append(logs, LogError(idx + 1, pdfs[idx + 1].raises[1]))
    /\ idx' = idx + 1
    /\ UNCHANGED <<pc, pdfs, all_rows, amountVars, dateVars, parseVars, downloadVars>>

(* The loop is through. *)
BatchEnd ==
    /\ pc = "batch"
    /\ idx = Len(pdfs)
    /\ pc' = "batch_done"
    /\ UNCHANGED <<batchVars, amountVars, dateVars, parseVars, downloadVars>>

NextBatch == BatchDocOk \/ BatchDocError \/ BatchEnd

SpecBatch == InitBatch /\ [][NextBatch]_vars

-----------------------------------------------------------------------------
(* download_all of download_invoices_from_ids.py.                           *)
InvoiceIds == {"0123456789abcdef", "fedcba9876543210"}
MaxIds == 3
MaxLimit == 2

InitDownload ==
    /\ pc = "download"
    /\ ids \in SeqsUpTo(InvoiceIds, MaxIds)
    /\ files0 \in SUBSET InvoiceIds
    /\ files = files0
    /\ state_file \in BOOLEAN
    /\ limit \in 0..MaxLimit
    /\ pos = 0 /\ done = 0 /\ events = << >>
    /\ AmountIdle /\ DateIdle /\ ParseIdle /\ BatchIdle

(* No storage_state.json: the function returns at once. *)
DlNoState ==
    /\ pc = "download"
    /\ ~state_file
    /\ pc' = "download_done"
    /\ UNCHANGED <<downloadVars, amountVars, dateVars, parseVars, batchVars>>

(* The session is opened and the loop starts. *)
DlOpen ==
    /\ pc = "download"
    /\ state_file
    /\ done' = 0
    /\ pos' = 0
    /\ pc' = "download_loop"
    /\ UNCHANGED <<ids, files0, files, state_file, limit, events,
                   amountVars, dateVars, parseVars, batchVars>>

LimitReached == limit # 0 /\ done >= limit

(* if limit and done >= limit: break *)
DlLimit ==
    /\ pc = "download_loop"
    /\ pos < Len(ids)
    /\ LimitReached
    /\ pc' = "download_done"
    /\ UNCHANGED <<downloadVars, amountVars, dateVars, parseVars, batchVars>>

Event(id, what) == [id |-> id, what |-> what]

(* The file exists: SKIP. *)
DlSkip ==
    /\ pc = "download_loop"
    /\ pos < Len(ids)
    /\ ~LimitReached
    /\ ids[pos + 1] \in files
    /\ events' = Append(events, Event(ids[pos + 1], "skip"))
    /\ pos' = pos + 1
    /\ UNCHANGED <<pc, ids, files0, files, state_file, limit, done,
                   amountVars, dateVars, parseVars, batchVars>>

(* GET answers ok: the file is written. *)
DlSaved ==
    /\ pc = "download_loop"
    /\ pos < Len(ids)
    /\ ~LimitReached
    /\ ids[pos + 1] \notin files
    /\ files' = files \cup {ids[pos + 1]}
    /\ done' = done + 1
    /\ events' = Append(events, Event(ids[pos + 1], "saved"))
    /\ pos' = pos + 1
    /\ UNCHANGED <<pc, ids, files0, state_file, limit,
                   amountVars, dateVars, parseVars, batchVars>>


(* An HTTP error counted as a download. *)
DlHttpErrorCounted ==
    /\ pc = "download_loop"
    /\ pos < Len(ids)
    /\ ~LimitReached
    /\ ids[pos + 1] \notin files
    /\ done' = done + 1
    /\ events' = Append(events, Event(ids[pos + 1], "http"))
    /\ pos' = pos + 1
    /\ UNCHANGED <<pc, ids, files0, files, state_file, limit,
                   amountVars, dateVars, parseVars, batchVars>>

(* GET answers with an HTTP error status. *)
DlHttpError ==
    /\ pc = "download_loop"
    /\ pos < Len(ids)
    /\ ~LimitReached
    /\ ids[pos + 1] \notin files
    /\ events' = Append(events, Event(ids[pos + 1], "http"))
    /\ pos' = pos + 1
    /\ UNCHANGED <<pc, ids, files0, files, state_file, limit, done,
                   amountVars, dateVars, parseVars, batchVars>>

(* GET raises (a timeout, a network error). *)
DlException ==
    /\ pc = "download_loop"
    /\ pos < Len(ids)
    /\ ~LimitReached
    /\ ids[pos + 1] \notin files
    /\ events' = Append(events, Event(ids[pos + 1], "error"))
    /\ pos' = pos + 1
    /\ UNCHANGED <<pc, ids, files0, files, state_file, limit, done,
                   amountVars, dateVars, parseVars, batchVars>>

(* The ids are through: context.close(). *)
DlEnd ==
    /\ pc = "download_loop"
    /\ pos = Len(ids)
    /\ pc' = "download_done"
    /\ UNCHANGED <<downloadVars, amountVars, dateVars, parseVars, batchVars>>

NextDownload ==
    DlNoState \/ DlOpen \/ DlLimit \/ DlSkip \/ DlSaved \/ DlHttpError
        \/ DlException \/ DlEnd

SpecDownload == InitDownload /\ [][NextDownload]_vars

-----------------------------------------------------------------------------
(* Properties of parse_invoice_text and split_product_blocks (SpecParse).   *)

Amt(n, e) == Some([n |-> n, e |-> e])
Count(d, kinds) == Cardinality({k \in 1..Len(d) : d[k] \in kinds})
ParseDone == pc = "parse_done"

(* C1: the number of records returned by parse_invoice_text is max(1, the   *)
(* number of line items of split_product_blocks), except that it is 0 when  *)
(* there is no line item and invoice_id is null; with no line item and an   *)
(* invoice_id the one record has every line-item field null.                *)
C1_RecordCount ==
    ParseDone =>
        /\ Len(out) = IF Len(rows) = 0 /\ hdr.invoice_id = None THEN 0
                      ELSE IF Len(rows) >= 1 THEN Len(rows) ELSE 1
        /\ (Len(rows) = 0 /\ hdr.invoice_id # None =>
                /\ out[1].product_name = None
                /\ out[1].deal_plan = None
                /\ out[1].line_subtotal = None
                /\ out[1].line_plan_discount = None
                /\ out[1].line_total = None)

C1_Witness ==
    /\ ParseDone /\ Len(rows) = 0 /\ hdr.invoice_id # None /\ Len(out) = 1
    /\ Count(doc, {10, 13}) > 0

(* C2: a text with exactly one product block (a name followed by its        *)
(* 'Subtotal <amount>' line) that has no 'Total <amount>' line, and whose   *)
(* 'Total paid (...) 42.00' is recovered, gives a single record whose       *)
(* line_total is 42.00.                                                     *)
C2_Doc ==
    /\ Count(doc, {10, 13}) = 1
    /\ Count(doc, {11, 14}) = 1
    /\ Count(doc, {6, 12, 15, 16}) = 0
    /\ Count(doc, {9}) = 1
    /\ \E k \in 1..(Len(doc) - 1) : doc[k] \in {10, 13} /\ doc[k + 1] \in {11, 14}
C2_LineTotalFromTotalPaid ==
    ParseDone /\ C2_Doc /\ hdr.invoice_total_paid = Amt(42, 0) =>
        Len(out) = 1 /\ out[1].line_total = Amt(42, 0)

(* C3, as claimed: two product blocks, each with its name, subtotal and     *)
(* total line, whatever precedes them and whatever their length, give       *)
(* exactly two records with the same header fields, the first with the      *)
(* first block's name, subtotal and total and the second with the second's. *)
SameHeader(r, h) ==
    /\ r.invoice_id = h.invoice_id
    /\ r.invoice_status = h.invoice_status
    /\ r.invoice_date = h.invoice_date
    /\ r.payment_type = h.payment_type
    /\ r.tax_id = h.tax_id
    /\ r.invoice_subtotal = h.invoice_subtotal
    /\ r.invoice_plan_discount_total = h.invoice_plan_discount_total
    /\ r.invoice_tax = h.invoice_tax
    /\ r.invoice_total_paid = h.invoice_total_paid
HasOwnLines(l) == \A sym \in {"n", "s", "t"} : \E k \in 1..Len(l) : l[k] = sym
SixLineLayout(l) ==
    /\ Len(l) = 6 /\ l[1] = "n" /\ l[2] = "s"
    /\ \A k \in 3..6 : l[k] \notin {"s", "z"}
HeaderExpected(d) ==
    LET has(k) == Count(d, {k}) = 1
    IN  [ invoice_id                  |-> IF has(1) THEN Some("0123456789abcdef") ELSE None,
          invoice_status              |-> IF has(2) THEN Some("PAID") ELSE None,
          payment_type                |-> IF has(3) THEN Some("Visa card") ELSE None,
          tax_id                      |-> IF has(4) THEN Some("ES-B12345") ELSE None,
          invoice_date                |-> IF has(5) THEN Some("2023-03-05") ELSE None,
          invoice_subtotal            |-> IF has(6) THEN Amt(30, 0) ELSE None,
          invoice_plan_discount_total |-> IF has(7) THEN Amt(5, 0) ELSE None,
          invoice_tax                 |-> IF has(8) THEN Amt(21, 1) ELSE None,
          invoice_total_paid          |-> IF has(9) THEN Amt(42, 0) ELSE None ]
C4_HeaderOrderIndependent ==
    pc \in {"loop", "parse_done"} /\ (\A k \in HeaderKinds : Count(doc, {k}) <= 1) =>
        hdr = HeaderExpected(doc)

C4_Witness ==
    /\ pc = "loop"
    /\ Len(doc) = 12
    /\ \A k \in HeaderKinds : Count(doc, {k}) = 1
    /\ doc[4] = 9 /\ doc[12] = 1
    /\ hdr.invoice_total_paid = Amt(42, 0)
    /\ hdr.payment_type = Some("Visa card")

(* C8: the backfill from the invoice totals is applied with exactly one     *)
(* line item only: with two or more, line_total and line_subtotal of every  *)
(* record are what split_product_blocks produced (a null stays null), and   *)
(* with exactly one a non-null value is never overwritten.                  *)
C8_BackfillOnlySingle ==
    ParseDone =>
        /\ Len(rows) >= 2 =>
              /\ Len(out) = Len(rows)
              /\ \A k \in 1..Len(rows) :
                    /\ out[k].line_total = rows[k].line_total
                    /\ out[k].line_subtotal = rows[k].line_subtotal
        /\ Len(rows) = 1 =>
              /\ Len(out) = 1
              /\ (rows[1].line_total # None => out[1].line_total = rows[1].line_total)
              /\ (rows[1].line_subtotal # None =>
                     out[1].line_subtotal = rows[1].line_subtotal)

C8_Witness ==
    /\ ParseDone /\ Len(rows) >= 2
    /\ hdr.invoice_total_paid # None /\ hdr.invoice_subtotal # None
    /\ \E k \in 1..Len(rows) :
          /\ rows[k].line_total = None /\ out[k].line_total = None
          /\ rows[k].line_subtotal = None /\ out[k].line_subtotal = None
    /\ \E k \in 1..Len(rows) :
          /\ rows[k].line_total # None /\ rows[k].line_total # hdr.invoice_total_paid

(* C9: in split_product_blocks the cursor starts at 0; a turn of the loop   *)
(* advances it by exactly 6 and emits exactly one line item when the        *)
(* 12-line window at the cursor holds the product pattern, and by exactly 1 *)
(* emitting none otherwise; the loop runs while the cursor is below the     *)
(* number N of non-empty lines and ends as soon as it is not; so there are  *)
(* at most N turns and at most ceil(N/6) line items, none for an empty text.*)
C9_WindowMatches ==
    RE_PRODUCT_NAME_WITH_SUBTOTAL(
        JoinLines(SubSeq(lines, i + 1, Min(i + 12, Len(lines))))) # None
C9_Turn ==
    /\ pc = "loop" /\ pc' = "loop" =>
          /\ i < Len(lines)
          /\ iters' = iters + 1
          /\ \/ C9_WindowMatches /\ i' = i + 6 /\ Len(rows') = Len(rows) + 1
                /\ SubSeq(rows', 1, Len(rows)) = rows
             \/ ~C9_WindowMatches /\ i' = i + 1 /\ rows' = rows
    /\ pc = "loop" /\ pc' # "loop" => i >= Len(lines) /\ rows' = rows
    /\ pc = "loop" /\ i >= Len(lines) => pc' # "loop"
    /\ pc = "parse" => pc' = "loop" /\ i' = 0 /\ rows' = << >> /\ iters' = 0
C9_Bounds ==
    pc \in {"loop", "parse_done"} =>
        /\ lines = NonEmptyLines(DocText(doc))
        /\ iters <= Len(lines)
        /\ 6 * Len(rows) <= Len(lines) + 5
        /\ (DocText(doc) = "" => rows = << >> /\ iters = 0)
C9_CursorLoop == [](C9_Bounds) /\ [][C9_Turn]_vars

C9_Witness ==
    /\ ParseDone /\ Len(rows) = 2 /\ iters > Len(rows) /\ i >= Len(lines)
    /\ Len(lines) > 12

-----------------------------------------------------------------------------
(* Properties of norm_amount (SpecAmount).                                  *)

(* The rule of the claim, written on its own: the characters of s that are  *)
(* no spaces; the separator that occurs last is the decimal one and becomes *)
(* a point, the other one is dropped; then the number the result spells,    *)
(* else the first run of digits with a fraction of one or two digits.       *)
RECURSIVE C5_Map(_, _, _)
C5_Map(s, dec, other) ==
    IF s = "" THEN ""
    ELSE (CASE Head(s) = " " -> ""
            [] Head(s) = other -> ""
            [] Head(s) = dec -> "."
            [] OTHER -> Head(s)) \o C5_Map(Tail(s), dec, other)
C5_Positions(s, c) == {p \in 1..Len(s) : Ch(s, p) = c}
C5_Last(s, c) == CHOOSE p \in C5_Positions(s, c) : \A q \in C5_Positions(s, c) : q <= p
C5_Separated(s) ==
    LET commas == C5_Positions(s, ",")
        points == C5_Positions(s, ".")
    IN  IF commas # {} /\ points # {}
        THEN IF C5_Last(s, ",") > C5_Last(s, ".")
             THEN C5_Map(s, ",", ".") ELSE C5_Map(s, ".", ",")
        ELSE IF commas # {} THEN C5_Map(s, ",", "x") ELSE C5_Map(s, ".", "x")
(* The number spelt by u, digits around at most one point. *)
C5_Number(u) ==
    LET points == C5_Positions(u, ".")
        digits == {p \in 1..Len(u) : Ch(u, p) \in DigitChars}
    IN  IF Cardinality(points) <= 1 /\ digits # {} /\ Cardinality(points) + Cardinality(digits) = Len(u)
        THEN LET frac == IF points = {} THEN 0 ELSE Len(u) - C5_Last(u, ".")
             IN  Some(Reduce(ToNat(C5_Map(u, "x", ".")), frac))
        ELSE None
C5_FirstNumber(u) ==
    LET starts == {p \in 1..Len(u) : Ch(u, p) \in DigitChars}
    IN  IF starts = {} THEN None
        ELSE LET a == FirstPos(starts)
                 stops == {q \in a..(Len(u) + 1) : q = Len(u) + 1 \/ Ch(u, q) \notin DigitChars}
                 d == FirstPos(stops)
                 fracs == {n \in 1..2 : /\ d + n <= Len(u) /\ Ch(u, d) = "."
                                        /\ \A q \in (d + 1)..(d + n) : Ch(u, q) \in DigitChars}
             IN  IF fracs = {} THEN C5_Number(SubSeq(u, a, d - 1))
                 ELSE C5_Number(SubSeq(u, a, d + Cardinality(fracs)))
C5_Rule(s) ==
    IF s = None THEN None
    ELSE IF C5_Number(C5_Separated(s[1])) # None THEN C5_Number(C5_Separated(s[1]))
    ELSE C5_FirstNumber(C5_Separated(s[1]))

(* C5: for every string over digits, ',', '.' and spaces norm_amount        *)
(* returns what the rule gives; "1,234.56" and "1.234,56" give 1234.56,     *)
(* "3,6" gives 3.6, "" and null give null; the result is a number or null.  *)
C5_NormAmountRule ==
    pc = "amount_done" =>
        /\ amt_ret = C5_Rule(amt_s)
        /\ (amt_s = Some("1,234.56") => amt_ret = Amt(123456, 2))
        /\ (amt_s = Some("1.234,56") => amt_ret = Amt(123456, 2))
        /\ (amt_s = Some("3,6") => amt_ret = Amt(36, 1))
        /\ (amt_s \in {None, Some("")} => amt_ret = None)
        /\ (amt_ret = None \/ (Len(amt_ret) = 1 /\ amt_ret[1] \in [n : Nat, e : Nat]))

C5_Witness ==
    pc = "amount_done" /\ amt_s = Some("12,3.4.5") /\ amt_ret = Amt(1234, 1)

-----------------------------------------------------------------------------
(* Properties of parse_date (SpecDate).                                     *)

(* What the lines of DateLines are: the ISO date of a line that holds       *)
(* "date:" followed by <letters> <1-2 digits>, <4 digits> (an occurrence),  *)
(* for the lines whose month is a full month name and whose date exists.    *)
C6_LongIso(kind) ==
    CASE kind = 1 -> Some("2023-03-05")
      [] kind = 7 -> Some("2024-05-07")
      [] kind = 8 -> Some("2024-02-29")
      [] OTHER -> None
(* Line k of d starts an occurrence: on the line itself, or "Date:" alone   *)
(* with the date on the next line.                                          *)
C6_Occurrence(d, k) ==
    \/ d[k] \in {1, 2, 3, 4, 7, 8}
    \/ d[k] = 9 /\ k < Len(d) /\ d[k + 1] = 10
C6_IsoAt(d, k) == IF d[k] = 9 THEN Some("2022-07-04") ELSE C6_LongIso(d[k])
C6_Occurrences(d) == {k \in 1..Len(d) : C6_Occurrence(d, k)}
(* The lines that show the label "Date:" at their start. *)
C6_Labelled(d) == {k \in 1..Len(d) : d[k] \in {1, 2, 3, 4, 5, 8, 9}}

(* C6, as claimed: a text that holds "Date:" followed by a valid date with  *)
(* a long month name gives that date in ISO form whatever else it holds,    *)
(* and a text with no "Date:" label gives null.                             *)
C6_AnyValidDateWins ==
    pc = "date_done" =>
        LET valid == {k \in C6_Occurrences(date_doc) \cap C6_Labelled(date_doc) :
                        C6_IsoAt(date_doc, k) # None}
        IN  /\ valid # {} => \E k \in valid : date_ret = C6_IsoAt(date_doc, k)
            /\ C6_Labelled(date_doc) = {} => date_ret = None

(* C6, amended: when the first place of the text where "date:" (in any      *)
(* letter case) is followed by <letters> <1-2 digits>, <4 digits> holds a   *)
(* valid date with a long month name, parse_date returns that date in ISO   *)
(* form, whatever follows it and whatever "Date:" of another form precedes  *)
(* it; a text without the characters "date:" gives null.                    *)
C6_FirstOccurrenceWins ==
    pc = "date_done" =>
        /\ C6_Occurrences(date_doc) # {} =>
              LET k == FirstPos(C6_Occurrences(date_doc))
              IN  C6_IsoAt(date_doc, k) # None => date_ret = C6_IsoAt(date_doc, k)
        /\ (\A k \in 1..Len(date_doc) : date_doc[k] \in {6, 10}) => date_ret = None

C6_Witness ==
    /\ pc = "date_done"
    /\ date_doc = <<5, 1, 3>>
    /\ date_ret = Some("2023-03-05")

-----------------------------------------------------------------------------
(* Properties of the batch loop (SpecBatch).                                *)

(* The rows of the PDFs 1..n that raise nothing, in order. *)
RECURSIVE C7_RowsUpTo(_)
C7_RowsUpTo(n) ==
    IF n = 0 THEN << >>
    ELSE C7_RowsUpTo(n - 1)
            \o (IF pdfs[n].raises = None THEN PdfRows(pdfs[n], n) ELSE << >>)
C7_ExtractionRaises(k) == pdfs[k].primary = None /\ pdfs[k].fallback = None
C7_ParsingRaises(k) == pdfs[k].raises # None
C7_RowsFrom(k) == {n \in 1..Len(all_rows) : all_rows[n].source_file = k}

(* C7, as claimed: whichever documents fail in extraction or in parsing,    *)
(* the loop goes through every document, appends one log entry per document *)
(* in order, with rows = 0 and a non-empty error for a failing one, a       *)
(* failing document adds no rows, and the rows of the others are those they *)
(* give alone, in order.                                                    *)
C7_FailingDocumentsLogged ==
    pc = "batch_done" =>
        /\ idx = Len(pdfs) /\ Len(logs) = Len(pdfs)
        /\ \A k \in 1..Len(pdfs) :
              /\ logs[k].pdf_file = k
              /\ (C7_ExtractionRaises(k) \/ C7_ParsingRaises(k) =>
                     logs[k].rows = 0 /\ logs[k].error # "" /\ C7_RowsFrom(k) = {})
        /\ all_rows = C7_RowsUpTo(Len(pdfs))

(* C7, amended: a document whose processing raises an exception into the    *)
(* loop never ends the batch, is logged with rows = 0 and the exception's   *)
(* message and adds no rows; a document whose extraction fails inside       *)
(* extract_text_best raises nothing: it is processed as its fallback text,  *)
(* or as the empty text, and logged with an empty error.  There is one log  *)
(* entry per document, in order, and the rows are those of the documents    *)
(* that raise nothing, each as if processed alone, in order.                *)
C7_RaisingDocumentsLogged ==
    /\ Len(logs) = idx /\ idx <= Len(pdfs)
    /\ all_rows = C7_RowsUpTo(idx)
    /\ pc = "batch_done" => idx = Len(pdfs)
    /\ \A k \in 1..idx :
          /\ logs[k].pdf_file = k
          /\ (C7_ParsingRaises(k) =>
                 /\ logs[k].rows = 0
                 /\ logs[k].error = pdfs[k].raises[1] /\ logs[k].error # ""
                 /\ logs[k].invoice_id = None
                 /\ C7_RowsFrom(k) = {})
          /\ (~C7_ParsingRaises(k) =>
                 /\ logs[k].error = ""
                 /\ logs[k].rows = Len(PdfRows(pdfs[k], k))
                 /\ Cardinality(C7_RowsFrom(k)) = Len(PdfRows(pdfs[k], k)))
          /\ (~C7_ParsingRaises(k) /\ C7_ExtractionRaises(k) =>
                 logs[k].rows = 0 /\ logs[k].error = "")

C7_Witness ==
    /\ pc = "batch_done" /\ Len(pdfs) = 2
    /\ C7_ParsingRaises(1) /\ ~C7_ParsingRaises(2)
    /\ logs[1].rows = 0 /\ logs[1].error # ""
    /\ logs[2].rows = 1 /\ logs[2].invoice_id = Some("0123456789abcdef")
    /\ Len(all_rows) = 1 /\ all_rows[1].source_file = 2

-----------------------------------------------------------------------------
(* Properties of download_all (SpecDownload).                               *)

C10_Saved(n) == {k \in 1..n : events[k].what = "saved"}
C10_Requested(k) == events[k].what \in {"saved", "http", "error"}
(* The invoices whose file exists when id number k is reached. *)
C10_FilesAt(k) == files0 \cup {events[j].id : j \in C10_Saved(k - 1)}

(* C10: download_all never requests nor overwrites a file that exists,      *)
(* writes a file only after an ok response, writes at most L files when     *)
(* limit is a positive L, counting neither the skipped nor the failed ids,  *)
(* and goes through the ids in the order given.                             *)
C10_DownloadSafety ==
    /\ Len(events) = pos /\ pos <= Len(ids)
    /\ \A k \in 1..pos :
          /\ events[k].id = ids[k]
          /\ (C10_Requested(k) <=> ids[k] \notin C10_FilesAt(k))
    /\ files = files0 \cup {events[k].id : k \in C10_Saved(pos)}
    /\ \A j, k \in C10_Saved(pos) : j # k => events[j].id # events[k].id
    /\ done = Cardinality(C10_Saved(pos))
    /\ (limit > 0 => Cardinality(files \ files0) <= limit)
    /\ (pc = "download_done" /\ state_file =>
            pos = Len(ids) \/ (limit > 0 /\ Cardinality(C10_Saved(pos)) = limit))
    /\ (~state_file => files = files0 /\ events = << >>)

C10_Witness ==
    /\ pc = "download_done" /\ limit = 1 /\ Len(ids) = 3 /\ pos = 2
    /\ events[1].what = "http" /\ events[2].what = "saved"
    /\ files0 # {} /\ Cardinality(files) = 2

====
